---- MODULE Spec2Model ----
(***************************************************************************)
(* Model of the beating-heart widget (src/src/main.rs): HeartWidget's five *)
(* Widget callbacks (event, lifecycle, update, layout, paint) driven by a  *)
(* host event loop, and the application state AppState { time }.           *)
(*                                                                         *)
(* Numbers.  The program computes in f64.  The model computes in decimal   *)
(* fixed point with three fractional digits: the integer 16 is 0.016, 1000 *)
(* is 1.0, and a product of two such numbers is rescaled by Mul.  f64      *)
(* rounding is not modelled.                                               *)
(***************************************************************************)
EXTENDS Integers, Naturals, Sequences, FiniteSets, TLC

\* ---------------------------------------------------------------- bounds
\* Largest number of AnimFrame events the host delivers in Spec.
MaxTicks == 4
\* Largest tick count the paint inputs are drawn from in PaintSpec
\* (one period of the beat is about 131 ticks).
MaxPaintTicks == 135
\* Window dimensions are k * DimUnit for k in 1 .. MaxDim.
MaxDim == 2

\* ------------------------------------------------------------ fixed point
One == 1000
DimUnit == 200 * One

Mul(a, b) == (a * b) \div One
Min(a, b) == IF a < b THEN a ELSE b

\* ------------------------------------------------------------- constants
\* data.time += 0.016
Step == 16
\* f64::sin(data.time * 3.0)
Freq == 3000
\* 1.0 + 0.1 * sin(..)
Amplitude == 100
\* size.width.min(size.height) * 0.25 * scale
WidthFactor == 250
\* size.width.min(size.height) * 0.48 * scale
HeightFactor == 480
\* ctx.stroke(&path, .., 4.0)
StrokeWidth == 4000
\* Color::rgb8(0, 0, 0)
Black == <<0, 0, 0>>
\* Color::rgb8(255, 0, 0)
Red == <<255, 0, 0>>
\* AppState { time: 0.0 }
InitialTime == 0

\* ---------------------------------------------------------------- inputs
None == "none"

\* Event::AnimFrame carries the elapsed interval; the other events stand
\* for the variants of druid::Event the handler ignores.
Intervals == {0, 16, 33}
AnimFrameEvents == {[kind |-> "AnimFrame", interval |-> i] : i \in Intervals}
OtherEvents == {[kind |-> k, interval |-> 0] : k \in {"MouseMove", "Timer"}}
OtherLifeCycles == {"Size", "HotChanged"}

Dims == {k * DimUnit : k \in 1 .. MaxDim}
SizeOf(w, h) == [width |-> w, height |-> h]
Sizes == {SizeOf(w, h) : w \in Dims, h \in Dims}
\* BoxConstraints: loose (min = 0) or tight (min = max).
Constraints ==
  {[min |-> SizeOf(0, 0), max |-> s] : s \in Sizes}
    \cup {[min |-> s, max |-> s] : s \in Sizes}

VARIABLES
  time,          \* AppState.time
  added,         \* the host has delivered LifeCycle::WidgetAdded
  animPending,   \* animation-frame requests the host has not yet served
  paintPending,  \* a repaint has been requested and not yet painted
  ticks,         \* number of AnimFrame events processed
  size,          \* the widget's size, as returned by the last layout
  call,          \* the last callback: its name, argument and requests
  drawn          \* the last paint: its inputs, its draw commands, and
                 \* whether the paint before it had the same inputs

vars == <<time, added, animPending, paintPending, ticks, size, call, drawn>>

\* ------------------------------------------------------------------ sine
\* f64::sin in fixed point.  The argument and the result have three
\* fractional digits; the quarter wave is the Taylor polynomial of degree
\* 7 in Horner form, computed with four fractional digits and truncated.
Fine == 10 * One

QuarterSin(y) ==
  LET z == y * (Fine \div One)
      u == (z * z) \div Fine
      a == Fine - u \div 42
      b == Fine - (u * a) \div (20 * Fine)
      c == Fine - (u * b) \div (6 * Fine)
  IN  ((z * c) \div Fine) \div (Fine \div One)

Sin(x) ==
  LET Pi == 3142
      HalfPi == 1571
      TwoPi == 6283
      r == x % TwoPi
  IN  IF r <= HalfPi THEN QuarterSin(r)
      ELSE IF r <= Pi THEN QuarterSin(Pi - r)
      ELSE IF r <= Pi + HalfPi THEN 0 - QuarterSin(r - Pi)
      ELSE 0 - QuarterSin(TwoPi - r)

\* ----------------------------------------------------------------- paint
ScaleWide(t) == One + Mul(2 * Amplitude, Sin(Mul(t, Freq)))

\* let scale = 1.0 + 0.1 * f64::sin(data.time * 3.0);
Scale(t) == One + Mul(Amplitude, Sin(Mul(t, Freq)))

Pt(x, y) == [x |-> x, y |-> y]

HeartPathOpen(sz, t) ==
  LET cx == sz.width \div 2
      cy == sz.height \div 2
      m == Min(sz.width, sz.height)
      width == Mul(Mul(m, WidthFactor), Scale(t))
      height == Mul(Mul(m, HeightFactor), Scale(t))
  IN  << [el |-> "MoveTo", p |-> Pt(cx, cy + height \div 2)],
         [el |-> "CurveTo",
          p1 |-> Pt(cx - width, cy + height \div 4),
          p2 |-> Pt(cx - width, cy - height \div 2),
          p |-> Pt(cx, cy - height \div 4)],
         [el |-> "CurveTo",
          p1 |-> Pt(cx + width, cy - height \div 2),
          p2 |-> Pt(cx + width, cy + height \div 4),
          p |-> Pt(cx, cy + height \div 4)],
         [el |-> "ClosePath"] >>

\* The BezPath built by paint from ctx.size() and data.time.
HeartPath(sz, t) ==
  LET cx == sz.width \div 2
      cy == sz.height \div 2
      m == Min(sz.width, sz.height)
      width == Mul(Mul(m, WidthFactor), Scale(t))
      height == Mul(Mul(m, HeightFactor), Scale(t))
  IN  << [el |-> "MoveTo", p |-> Pt(cx, cy + height \div 2)],
         [el |-> "CurveTo",
          p1 |-> Pt(cx - width, cy + height \div 4),
          p2 |-> Pt(cx - width, cy - height \div 2),
          p |-> Pt(cx, cy - height \div 4)],
         [el |-> "CurveTo",
          p1 |-> Pt(cx + width, cy - height \div 2),
          p2 |-> Pt(cx + width, cy + height \div 4),
          p |-> Pt(cx, cy + height \div 2)],
         [el |-> "ClosePath"] >>

paintRedOutline(sz, data) ==
  LET path == HeartPath(sz, data.time)
  IN  [data |-> data,
       cmds |-> << [cmd |-> "stroke", path |-> path, color |-> Red,
                    width |-> StrokeWidth] >>]

paintAdvancing(sz, data) ==
  LET path == HeartPath(sz, data.time)
  IN  [data |-> [time |-> data.time + Step],
       cmds |-> << [cmd |-> "stroke", path |-> path, color |-> Black,
                    width |-> StrokeWidth],
                   [cmd |-> "fill", path |-> path, color |-> Red,
                    width |-> 0] >>]

\* HeartWidget::paint: the draw commands issued on ctx, and data, which
\* paint receives by shared reference.
paint(sz, data) ==
  LET path == HeartPath(sz, data.time)
  IN  [data |-> data,
       cmds |-> << [cmd |-> "stroke", path |-> path, color |-> Black,
                    width |-> StrokeWidth],
                   [cmd |-> "fill", path |-> path, color |-> Red,
                    width |-> 0] >>]

\* ---------------------------------------------------------------- layout
layoutMin(bc) == bc.min

\* HeartWidget::layout: bc.max()
layout(bc) == bc.max

\* ----------------------------------------------------------------- event
Effect(d, a, p) == [data |-> d, anim |-> a, paint |-> p]

eventDelta(ev, data) ==
  IF ev.kind = "AnimFrame"
    THEN Effect([time |-> data.time + ev.interval], 1, 1)
    ELSE Effect(data, 0, 0)

eventAny(ev, data) == Effect([time |-> data.time + Step], 1, 1)

eventTwice(ev, data) ==
  IF ev.kind = "AnimFrame"
    THEN Effect([time |-> data.time + Step], 2, 1)
    ELSE Effect(data, 0, 0)

eventOnce(ev, data) ==
  IF ev.kind = "AnimFrame"
    THEN Effect([time |-> data.time + Step], 0, 1)
    ELSE Effect(data, 0, 0)

\* HeartWidget::event: the new data and the numbers of request_anim_frame
\* and request_paint calls made on ctx.
event(ev, data) ==
  IF ev.kind = "AnimFrame"
    THEN Effect([time |-> data.time + Step], 1, 1)
    ELSE Effect(data, 0, 0)

\* ------------------------------------------------------------- lifecycle
lifecycleAlways(ev, data) == Effect(data, 1, 0)

\* HeartWidget::lifecycle
lifecycle(ev, data) ==
  IF ev = "WidgetAdded" THEN Effect(data, 1, 0) ELSE Effect(data, 0, 0)

\* HeartWidget::update: empty body.
update(old, data) == Effect(data, 0, 0)

\* ------------------------------------------------------------------ host
AppState == [time |-> time]

\* The widget's size before the first layout (Size::ZERO).
ZeroSize == SizeOf(0, 0)
NoEvent == [kind |-> None, interval |-> 0]
NoConstraints == [min |-> ZeroSize, max |-> ZeroSize]
NoDraw == [size |-> ZeroSize, time |-> 0, cmds |-> <<>>, again |-> FALSE]
LifeCycleEvent(ev) == [kind |-> ev, interval |-> 0]

Call(fn, ev, bc, eff) ==
  [fn |-> fn, ev |-> ev, bc |-> bc, anim |-> eff.anim, paint |-> eff.paint]

NoCall ==
  [fn |-> None, ev |-> NoEvent, bc |-> NoConstraints, anim |-> 0, paint |-> 0]

\* main: launch(AppState { time: 0.0 }); nothing has been delivered yet.
Init ==
  /\ time = InitialTime
  /\ added = FALSE
  /\ animPending = 0
  /\ paintPending = FALSE
  /\ ticks = 0
  /\ size = ZeroSize
  /\ call = NoCall
  /\ drawn = NoDraw

\* The host adds the widget to the window: lifecycle(WidgetAdded), once.
DeliverWidgetAdded ==
  /\ ~added
  /\ LET eff == lifecycle("WidgetAdded", AppState)
     IN  /\ time' = eff.data.time
         /\ animPending' = animPending + eff.anim
         /\ paintPending' = (paintPending \/ eff.paint > 0)
         /\ call' = Call("lifecycle", LifeCycleEvent("WidgetAdded"), NoConstraints, eff)
  /\ added' = TRUE
  /\ UNCHANGED <<ticks, size, drawn>>

\* Any other lifecycle event, after the widget has been added.
DeliverLifeCycle ==
  /\ added
  /\ \E ev \in OtherLifeCycles :
       LET eff == lifecycle(ev, AppState)
       IN  /\ time' = eff.data.time
           /\ animPending' = animPending + eff.anim
           /\ paintPending' = (paintPending \/ eff.paint > 0)
           /\ call' = Call("lifecycle", LifeCycleEvent(ev), NoConstraints, eff)
  /\ UNCHANGED <<added, ticks, size, drawn>>

\* The host serves one outstanding animation-frame request.
DeliverAnimFrame ==
  /\ added
  /\ animPending > 0
  /\ ticks < MaxTicks
  /\ \E ev \in AnimFrameEvents :
       LET eff == event(ev, AppState)
       IN  /\ time' = eff.data.time
           /\ animPending' = (animPending - 1) + eff.anim
           /\ paintPending' = (paintPending \/ eff.paint > 0)
           /\ call' = Call("event", ev, NoConstraints, eff)
  /\ ticks' = ticks + 1
  /\ UNCHANGED <<added, size, drawn>>

\* Any other event.
DeliverEvent ==
  /\ added
  /\ \E ev \in OtherEvents :
       LET eff == event(ev, AppState)
       IN  /\ time' = eff.data.time
           /\ animPending' = animPending + eff.anim
           /\ paintPending' = (paintPending \/ eff.paint > 0)
           /\ call' = Call("event", ev, NoConstraints, eff)
  /\ UNCHANGED <<added, ticks, size, drawn>>

\* The host calls update after the data changed.
Update ==
  /\ added
  /\ LET eff == update(AppState, AppState)
     IN  /\ time' = eff.data.time
         /\ animPending' = animPending + eff.anim
         /\ paintPending' = (paintPending \/ eff.paint > 0)
         /\ call' = Call("update", NoEvent, NoConstraints, eff)
  /\ UNCHANGED <<added, ticks, size, drawn>>

\* The host lays the widget out under some constraints.
Layout ==
  /\ added
  /\ \E bc \in Constraints :
       /\ size' = layout(bc)
       /\ call' = Call("layout", NoEvent, bc, Effect(AppState, 0, 0))
  /\ UNCHANGED <<time, added, animPending, paintPending, ticks, drawn>>

\* The host paints the widget at its laid-out size.
Paint ==
  /\ added
  /\ size # ZeroSize
  /\ LET out == paint(size, AppState)
     IN  /\ time' = out.data.time
         /\ drawn' = [size |-> size, time |-> time, cmds |-> out.cmds,
                       again |-> (drawn # NoDraw /\ drawn.size = size
                                    /\ drawn.time = time)]
         /\ call' = Call("paint", NoEvent, NoConstraints, Effect(out.data, 0, 0))
  /\ paintPending' = FALSE
  /\ UNCHANGED <<added, animPending, ticks, size>>

Next ==
  \/ DeliverWidgetAdded
  \/ DeliverLifeCycle
  \/ DeliverAnimFrame
  \/ DeliverEvent
  \/ Update
  \/ Layout
  \/ Paint

Spec == Init /\ [][Next]_vars

\* The host serves every animation-frame request it has accepted.
LiveSpec == Init /\ [][Next]_vars /\ WF_vars(DeliverAnimFrame)

\* Layout and paint as functions of their inputs: the animation has run
\* for any number of ticks, and the host lays out and paints.
PaintInit ==
  /\ \E n \in 0 .. MaxPaintTicks :
       /\ ticks = n
       /\ time = InitialTime + n * Step
  /\ added = TRUE
  /\ animPending = 1
  /\ paintPending \in BOOLEAN
  /\ size = ZeroSize
  /\ call = NoCall
  /\ drawn = NoDraw

PaintNext == Layout \/ Paint

PaintSpec == PaintInit /\ [][PaintNext]_vars

\* ---------------------------------------------------------------- claims
IsTick(c) == c.fn = "event" /\ c.ev.kind = "AnimFrame"

\* C1: every call of event with an AnimFrame event increases time by
\* exactly Step (0.016), whatever interval the event carries, and makes
\* exactly one request_anim_frame and exactly one request_paint call.
C1_TickStep ==
  [][IsTick(call') =>
       /\ time' = time + Step
       /\ call'.anim = 1
       /\ call'.paint = 1]_vars

\* a second tick whose interval is not the step has been processed
C1_Witness ==
  /\ IsTick(call)
  /\ call.ev.interval = 33
  /\ time = 2 * Step
  /\ paintPending

C3_Mount ==
  [][call'.fn = "lifecycle" =>
       /\ time' = time
       /\ call'.paint = 0
       /\ call'.anim = (IF call'.ev.kind = "WidgetAdded" THEN 1 ELSE 0)]_vars

\* the widget has just been added and the first tick is requested
C3_Witness ==
  /\ call.fn = "lifecycle"
  /\ call.ev.kind = "WidgetAdded"
  /\ call.anim = 1
  /\ animPending = 1
  /\ time = InitialTime

\* C4: under constraints whose maximum is (w, h) with w > 0 and h > 0,
\* layout returns exactly (w, h), whatever the minimum and the time.
C4_LayoutFills ==
  (call.fn = "layout" /\ call.bc.max.width > 0 /\ call.bc.max.height > 0)
    => size = call.bc.max

\* a layout under loose, non-square constraints after the animation ran
C4_Witness ==
  /\ call.fn = "layout"
  /\ call.bc.min # call.bc.max
  /\ call.bc.max.width # call.bc.max.height
  /\ size = call.bc.max
  /\ time > 0

\* C5: the heart path of every paint is closed: it starts at the bottom
\* tip (center.x, center.y + height/2), its first cubic segment ends at
\* the top notch (center.x, center.y - height/4), and its second and last
\* cubic segment ends at the start point.
C5_PathClosed ==
  drawn # NoDraw =>
    LET path == drawn.cmds[1].path
        cx == drawn.size.width \div 2
        cy == drawn.size.height \div 2
        m == Min(drawn.size.width, drawn.size.height)
        height == Mul(Mul(m, HeightFactor), Scale(drawn.time))
    IN  /\ Len(path) = 4
        /\ path[1].el = "MoveTo"
        /\ path[1].p = Pt(cx, cy + height \div 2)
        /\ path[2].el = "CurveTo"
        /\ path[2].p = Pt(cx, cy - height \div 4)
        /\ path[3].el = "CurveTo"
        /\ path[3].p = path[1].p
        /\ path[4].el = "ClosePath"

\* a non-square viewport painted while the heart is contracted
C5_Witness ==
  /\ drawn # NoDraw
  /\ drawn.size.width # drawn.size.height
  /\ Scale(drawn.time) < One
  /\ drawn.cmds[1].path[3].p = drawn.cmds[1].path[1].p

\* C6: time starts at 0, never decreases, and is changed by no callback
\* other than event with an AnimFrame event.
C6_TimeOnlyTicks ==
  /\ time = 0
  /\ [][/\ time' >= time
        /\ (~IsTick(call') => time' = time)]_vars

\* an ignored event was delivered after two ticks and left time alone
C6_Witness ==
  /\ call.fn = "event"
  /\ call.ev.kind = "MouseMove"
  /\ ticks = 2
  /\ time = 2 * Step

C8_ScaleBounded ==
  /\ Scale(time) >= One - Amplitude
  /\ Scale(time) <= One + Amplitude

\* the heart has been painted near its largest size
C8_Witness ==
  /\ drawn # NoDraw
  /\ drawn.time = time
  /\ Scale(time) >= One + Amplitude - 1

\* C9: every paint emits exactly two draw commands on the same heart path:
\* first a stroke in black of width 4.0, then a fill in solid red.
C9_StrokeThenFill ==
  drawn # NoDraw =>
    /\ Len(drawn.cmds) = 2
    /\ drawn.cmds[1].cmd = "stroke"
    /\ drawn.cmds[1].color = Black
    /\ drawn.cmds[1].width = StrokeWidth
    /\ drawn.cmds[2].cmd = "fill"
    /\ drawn.cmds[2].color = Red
    /\ drawn.cmds[2].path = drawn.cmds[1].path
    /\ drawn.cmds[1].path = HeartPath(drawn.size, drawn.time)

\* a paint has emitted its two commands after the animation ran
C9_Witness ==
  /\ call.fn = "paint"
  /\ Len(drawn.cmds) = 2
  /\ drawn.time > 0
  /\ ~paintPending

====
